---- MODULE Spec2Model ----
(***************************************************************************)
(* Nigeria flood-prediction service: the process-wide                      *)
(* NigeriaMLTrainingPipeline object of src/lib/ml_training_pipeline.py,    *)
(* its artifacts on disk, and the request handlers of src/main.py that     *)
(* use it (/retrain, /predict).                                            *)
(*                                                                         *)
(* A fitted object (model, scaler, label encoder) is identified by the     *)
(* number of the train_model call that fitted it (its "fit").  Fit 0 is    *)
(* "no fit": the objects built by __init__.                                *)
(***************************************************************************)
EXTENDS Integers, Sequences, FiniteSets, TLC

VARIABLES
    phase,          \* process: "constructed", "import", "serving", "down"
    is_trained,     \* self.is_trained
    config,         \* self.config (the TrainingConfig in use)
    model,          \* self.model
    scaler,         \* self.scaler
    label_encoder,  \* self.label_encoder
    disk,           \* the four files under models/
    nfits,          \* number of train_model calls started so far
    tpc,            \* per thread: position inside retrain_model / train_model
    tfit,           \* per thread: the fit number of its train_model call
    treq,           \* per thread: the model_type its request asked for
    tpre,           \* per thread: the pipeline as it was when its request arrived
    tres,           \* per thread: what its last request returned
    ppc,            \* the /predict thread: position inside predict_flood_risk
    pused,          \* the /predict thread: the objects its call has used
    req,            \* a prediction request: entry point and arguments
    out,            \* what the prediction request returned or raised
    died,           \* how the previous process ended, "none" for the first
    gen,            \* generate_nigeria_synthetic_dataset: its runs and rows
    cron            \* scripts/weather_cron.py: one run of main()

vars == <<phase, is_trained, config, model, scaler, label_encoder, disk,
          nfits, tpc, tfit, treq, tpre, tres, ppc, pused, req, out, died,
          gen, cron>>

----------------------------------------------------------------------------
(* Bounds *)

\* train_model calls in one behaviour
MaxFits == 3

\* longest horizon_hours list of a request
MaxHorizons == 2

\* most None-valued keys of a request beside the readings
MaxExtraNone == 5

\* most rows of a generated dataset
MaxSamples == 2

\* days the clock moves within one behaviour
MaxClock == 1

----------------------------------------------------------------------------
(* Program constants *)

\* len(self.feature_columns)
NumFeatures == 14

\* the threads of the server's worker pool that the model follows
Threads == {"t1", "t2"}

\* the thread that imports the module (and trains at import time)
MainThread == "t1"

\* TrainingRequest.model_type is any string; two are supported
SupportedModelTypes == {"gradient_boosting", "random_forest"}

RequestedModelTypes == SupportedModelTypes \cup {"svm"}

\* TrainingConfig(): the dataclass defaults
DefaultConfig == [model_type |-> "gradient_boosting"]

\* self.model = None
NoModel == [fit |-> 0, family |-> "none", st |-> "none", nfeat |-> 0]

\* StandardScaler() / LabelEncoder() as constructed, never fitted
FreshScaler == [fit |-> 0, st |-> "unfitted"]

FreshEncoder == [fit |-> 0, st |-> "unfitted", classes |-> {}]

Absent == [kind |-> "absent"]

Corrupt == [kind |-> "corrupt"]

File(obj) == [kind |-> "ok", obj |-> obj]

EmptyDisk == [model |-> Absent, scaler |-> Absent,
              label_encoder |-> Absent, metadata |-> Absent]

\* what a request handler sees of the pipeline
Snapshot == [is_trained |-> is_trained, config |-> config, model |-> model,
             scaler |-> scaler, label_encoder |-> label_encoder]

\* the pipeline as __init__ builds it when models/ is empty
ConstructedPipeline ==
    [is_trained |-> FALSE, config |-> DefaultConfig, model |-> NoModel,
     scaler |-> FreshScaler, label_encoder |-> FreshEncoder]

----------------------------------------------------------------------------
(* load_models *)

\* joblib.load / json.load raise on a truncated file; the first one that
\* raises ends the try block, so nothing after it is loaded.
LoadedModel(d) ==
    IF d.model.kind = "ok" THEN d.model.obj ELSE NoModel

LoadedScaler(d) ==
    IF d.model.kind # "corrupt" /\ d.scaler.kind = "ok"
    THEN d.scaler.obj ELSE FreshScaler

LoadedEncoder(d) ==
    IF d.model.kind # "corrupt" /\ d.scaler.kind # "corrupt"
       /\ d.label_encoder.kind = "ok"
    THEN d.label_encoder.obj ELSE FreshEncoder

\* self.is_trained = metadata.get('is_trained', False); the except branch
\* sets it to False.
LoadedIsTrained(d) ==
    IF d.model.kind # "corrupt" /\ d.scaler.kind # "corrupt"
       /\ d.label_encoder.kind # "corrupt" /\ d.metadata.kind = "ok"
    THEN d.metadata.obj.is_trained ELSE FALSE

\* state_code=None
NoneCode == "<None>"

NoRequest == [entry |-> "none", conditions |-> <<>>, state_code |-> NoneCode,
              horizon_hours |-> <<>>]

NoResult == [status |-> "none"]

\* the /predict thread has read nothing yet
NothingUsed == [label_encoder |-> FreshEncoder, scaler |-> FreshScaler,
                model |-> NoModel]

\* generate_nigeria_synthetic_dataset has not been called
NoGeneration == [pc |-> "idle", run |-> 0, n |-> 0, draws |-> <<>>, i |-> 0,
                 now |-> 0, rows |-> <<>>, first |-> <<>>]

\* weather_cron before main() runs: no location tried, nothing logged
NoCron ==
    [pc |-> "idle", collected |-> <<>>, success_count |-> 0,
     error_count |-> 0, model_retrained |-> "none", trainings |-> 0,
     log |-> "none"]

----------------------------------------------------------------------------
(* The region registry.                                                    *)

St(name, region, risk) == [name |-> name, region |-> region, flood_risk |-> risk]

\* _load_nigeria_states
nigeria_states ==
    ("AB" :> St("Abia", "South East", "high")) @@
    ("AD" :> St("Adamawa", "North East", "high")) @@
    ("AK" :> St("Akwa Ibom", "South South", "high")) @@
    ("AN" :> St("Anambra", "South East", "critical")) @@
    ("BA" :> St("Bauchi", "North East", "medium")) @@
    ("BY" :> St("Bayelsa", "South South", "critical")) @@
    ("BE" :> St("Benue", "North Central", "high")) @@
    ("BO" :> St("Borno", "North East", "low")) @@
    ("CR" :> St("Cross River", "South South", "high")) @@
    ("DE" :> St("Delta", "South South", "critical")) @@
    ("EB" :> St("Ebonyi", "South East", "high")) @@
    ("ED" :> St("Edo", "South South", "high")) @@
    ("EK" :> St("Ekiti", "South West", "medium")) @@
    ("EN" :> St("Enugu", "South East", "medium")) @@
    ("FCT" :> St("Abuja", "North Central", "medium")) @@
    ("GO" :> St("Gombe", "North East", "medium")) @@
    ("IM" :> St("Imo", "South East", "high")) @@
    ("JI" :> St("Jigawa", "North West", "low")) @@
    ("KD" :> St("Kaduna", "North West", "medium")) @@
    ("KN" :> St("Kano", "North West", "low")) @@
    ("KT" :> St("Katsina", "North West", "low")) @@
    ("KE" :> St("Kebbi", "North West", "medium")) @@
    ("KO" :> St("Kogi", "North Central", "high")) @@
    ("KW" :> St("Kwara", "North Central", "medium")) @@
    ("LA" :> St("Lagos", "South West", "critical")) @@
    ("NA" :> St("Nasarawa", "North Central", "medium")) @@
    ("NI" :> St("Niger", "North Central", "medium")) @@
    ("OG" :> St("Ogun", "South West", "high")) @@
    ("ON" :> St("Ondo", "South West", "medium")) @@
    ("OS" :> St("Osun", "South West", "medium")) @@
    ("OY" :> St("Oyo", "South West", "medium")) @@
    ("PL" :> St("Plateau", "North Central", "low")) @@
    ("RI" :> St("Rivers", "South South", "critical")) @@
    ("SO" :> St("Sokoto", "North West", "low")) @@
    ("TA" :> St("Taraba", "North East", "high")) @@
    ("YO" :> St("Yobe", "North East", "low")) @@
    ("ZA" :> St("Zamfara", "North West", "low"))

\* `state_code and state_code in self.nigeria_states`
KnownState(code) ==
    code # NoneCode /\ code # "" /\ code \in DOMAIN nigeria_states

\* the data frames train_model is given: rows of every state, or the rows
\* of the states a retrain request names in state_codes
TrainingSets == {DOMAIN nigeria_states, {"LA"}}

\* sorted(): the order in which a LabelEncoder numbers its classes
SortedStates ==
    <<"AB", "AD", "AK", "AN", "BA", "BE", "BO", "BY", "CR", "DE", "EB", "ED",
      "EK", "EN", "FCT", "GO", "IM", "JI", "KD", "KE", "KN", "KO", "KT", "KW",
      "LA", "NA", "NI", "OG", "ON", "OS", "OY", "PL", "RI", "SO", "TA", "YO",
      "ZA">>

SortedRegions ==
    <<"North Central", "North East", "North West", "South East",
      "South South", "South West">>

\* LabelEncoder.transform([x])[0] of an encoder fitted on `classes`:
\* the position of x among the sorted classes, from 0
LabelEncode(classes, sorted, x) ==
    Cardinality({i \in DOMAIN sorted :
                   /\ sorted[i] \in classes
                   /\ \E j \in DOMAIN sorted : j > i /\ sorted[j] = x})

\* df['region']: the regions of the states in the frame
TrainingRegions(classes) == {nigeria_states[st].region : st \in classes}

----------------------------------------------------------------------------
TypeOK ==
    /\ phase \in {"constructed", "import", "serving", "down"}
    /\ is_trained \in BOOLEAN
    /\ nfits \in 0..MaxFits

Init ==
    /\ phase = "constructed"
    /\ is_trained = FALSE
    /\ config = DefaultConfig
    /\ model = NoModel
    /\ scaler = FreshScaler
    /\ label_encoder = FreshEncoder
    /\ disk = EmptyDisk
    /\ nfits = 0
    /\ tpc = [t \in Threads |-> "idle"]
    /\ tfit = [t \in Threads |-> 0]
    /\ treq = [t \in Threads |-> DefaultConfig.model_type]
    /\ tpre = [t \in Threads |-> ConstructedPipeline]
    /\ tres = [t \in Threads |-> "none"]
    /\ ppc = "idle"
    /\ pused = NothingUsed
    /\ req = NoRequest
    /\ out = NoResult
    /\ died = "none"
    /\ gen = NoGeneration
    /\ cron = NoCron

----------------------------------------------------------------------------
(* retrain_model and train_model, one action per stage.  `raise` is the    *)
(* stage's library call raising: a data frame the stage rejects, memory    *)
(* exhaustion, or a failed write under models/.                            *)

threadVars == <<tpc, tfit, treq, tpre, tres>>

predVars == <<ppc, pused, req, out, died>>

memVars == <<is_trained, config, model, scaler, label_encoder>>

Goto(t, pc) == tpc' = [tpc EXCEPT ![t] = pc]

\* a step of train_model that touches nothing but the thread itself
LocalStep(t, from, to, raise) ==
    /\ tpc[t] = from
    /\ Goto(t, IF raise THEN "raised" ELSE to)
    /\ UNCHANGED <<phase, memVars, disk, nfits, tfit, treq, tpre, tres,
                   predVars, gen, cron>>

\* the handler on thread t ends with response r; its locals are gone
Leave(t, r) ==
    /\ tres' = [tres EXCEPT ![t] = r]
    /\ tfit' = [tfit EXCEPT ![t] = 0]
    /\ treq' = [treq EXCEPT ![t] = DefaultConfig.model_type]
    /\ tpre' = [tpre EXCEPT ![t] = ConstructedPipeline]
    /\ Goto(t, "idle")

\* train_model is entered: the call gets its fit number
EnterTrain(t, mt) ==
    /\ nfits < MaxFits
    /\ nfits' = nfits + 1
    /\ tfit' = [tfit EXCEPT ![t] = nfits + 1]
    /\ treq' = [treq EXCEPT ![t] = mt]
    /\ tres' = [tres EXCEPT ![t] = "pending"]
    /\ Goto(t, "acquire")

\* module level, after construction: train unless load_models found a
\* trained model
ImportCheck ==
    /\ phase = "constructed"
    /\ IF is_trained
       THEN /\ phase' = "serving"
            /\ UNCHANGED <<nfits, threadVars>>
       ELSE /\ phase' = "import"
            /\ tpre' = [tpre EXCEPT ![MainThread] = Snapshot]
            /\ EnterTrain(MainThread, config.model_type)
    /\ UNCHANGED <<memVars, disk,
                   predVars, gen, cron>>

\* POST /retrain: build the TrainingConfig, assign it to the shared
\* pipeline, call train_model
Retrain(t, mt) ==
    /\ phase = "serving"
    /\ tpc[t] = "idle"
    /\ tpre' = [tpre EXCEPT ![t] = Snapshot]
    /\ config' = [model_type |-> mt]
    /\ EnterTrain(t, mt)
    /\ UNCHANGED <<phase, is_trained, model, scaler, label_encoder, disk,
                   predVars, gen, cron>>

\* df is None: fetch_nigeria_weather_data or the synthetic generator;
\* the two logging lines read df['state_code']
Acquire(t, raise) ==
    LocalStep(t, "acquire", "prepare", raise)

\* prepare_features: self.label_encoder.fit_transform refits the shared
\* encoder in place; the column selection after it may still raise
PrepareFeatures(t, raise) ==
    /\ tpc[t] = "prepare"
    /\ \E df \in IF phase = "import" THEN {DOMAIN nigeria_states}
                  ELSE TrainingSets :
          label_encoder' = [fit |-> tfit[t], st |-> "fitted", classes |-> df]
    /\ Goto(t, IF raise THEN "raised" ELSE "split")
    /\ UNCHANGED <<phase, is_trained, config, model, scaler, disk, nfits,
                   tfit, treq, tpre, tres,
                   predVars, gen, cron>>

\* train_test_split
Split(t, raise) ==
    LocalStep(t, "split", "scale", raise)

\* self.scaler.fit_transform refits the shared scaler in place; fit()
\* resets the scaler before it validates its input, so a rejected input
\* leaves it unfitted
ScaleFeatures(t, raise) ==
    /\ tpc[t] = "scale"
    /\ scaler' = [fit |-> tfit[t],
                  st |-> IF raise THEN "unfitted" ELSE "fitted"]
    /\ Goto(t, IF raise THEN "raised" ELSE "construct")
    /\ UNCHANGED <<phase, is_trained, config, model, label_encoder, disk,
                   nfits, tfit, treq, tpre, tres,
                   predVars, gen, cron>>

\* the if / elif on self.config.model_type; no else branch: any other
\* model_type leaves self.model as it is
ConstructedModel(mt, old, fit) ==
    IF mt \in SupportedModelTypes
    THEN [fit |-> fit, family |-> mt, st |-> "unfitted", nfeat |-> 0]
    ELSE old

ConstructModel(t) ==
    /\ tpc[t] = "construct"
    /\ model' = ConstructedModel(config.model_type, model, tfit[t])
    /\ Goto(t, "fit")
    /\ UNCHANGED <<phase, is_trained, config, scaler, label_encoder, disk,
                   nfits, tfit, treq, tpre, tres,
                   predVars, gen, cron>>

\* self.model.fit(X_train_scaled, y_train): AttributeError on None;
\* otherwise the object self.model refers to is fitted in place
FitModel(t, raise) ==
    /\ tpc[t] = "fit"
    /\ IF model = NoModel \/ raise
       THEN /\ Goto(t, "raised")
            /\ UNCHANGED model
       ELSE /\ model' = [model EXCEPT !.fit = tfit[t], !.st = "fitted",
                                      !.nfeat = NumFeatures]
            /\ Goto(t, "evaluate")
    /\ UNCHANGED <<phase, is_trained, config, scaler, label_encoder, disk,
                   nfits, tfit, treq, tpre, tres,
                   predVars, gen, cron>>

\* self.model.predict(X_test_scaled) and the three metrics
Evaluate(t, raise) ==
    LocalStep(t, "evaluate", "cv", raise \/ model.st # "fitted")

\* cross_val_score on clones of self.model
CrossValidate(t, raise) ==
    LocalStep(t, "cv", "mark", raise \/ model = NoModel)

\* self.is_trained = True
MarkTrained(t) ==
    /\ tpc[t] = "mark"
    /\ is_trained' = TRUE
    /\ Goto(t, "save_model")
    /\ UNCHANGED <<phase, config, model, scaler, label_encoder, disk, nfits,
                   tfit, treq, tpre, tres,
                   predVars, gen, cron>>

\* save_models, one action per file written
WriteFile(t, from, to, name, content, raise) ==
    /\ tpc[t] = from
    /\ IF raise
       THEN /\ Goto(t, "raised")
            /\ UNCHANGED disk
       ELSE /\ disk' = [disk EXCEPT ![name] = content]
            /\ Goto(t, to)
    /\ UNCHANGED <<phase, memVars, nfits, tfit, treq, tpre, tres,
                   predVars, gen, cron>>

\* if self.model: joblib.dump(self.model, ...)
SaveModel(t, raise) ==
    IF model = NoModel
    THEN LocalStep(t, "save_model", "save_scaler", FALSE)
    ELSE WriteFile(t, "save_model", "save_scaler", "model", File(model),
                   raise)

SaveScaler(t, raise) ==
    WriteFile(t, "save_scaler", "save_encoder", "scaler", File(scaler),
              raise)

SaveEncoder(t, raise) ==
    WriteFile(t, "save_encoder", "save_metadata", "label_encoder",
              File(label_encoder), raise)

\* the metadata dict of save_models; trained_at stands for the fit
Metadata(fit) ==
    [trained_at |-> fit, is_trained |-> is_trained,
     model_type |-> config.model_type, nfeat |-> NumFeatures]

SaveMetadata(t, raise) ==
    WriteFile(t, "save_metadata", "importance", "metadata",
              File(Metadata(tfit[t])), raise)

\* self.model.feature_importances_ and the returned metrics
ReturnMetrics(t) ==
    LocalStep(t, "importance", "returned", model.st # "fitted")

\* retrain_model: the try block returns status "success"
RetrainSuccess(t) ==
    /\ phase = "serving"
    /\ tpc[t] = "returned"
    /\ Leave(t, "success")
    /\ UNCHANGED <<phase, memVars, disk, nfits, predVars, gen, cron>>

\* the except branch marking the pipeline untrained, as load_models does
RetrainExcept_Untrains(t) ==
    /\ phase = "serving"
    /\ tpc[t] = "raised"
    /\ Leave(t, "error")
    /\ is_trained' = FALSE
    /\ UNCHANGED <<phase, config, model, scaler, label_encoder, disk, nfits,
                   predVars, gen, cron>>

\* retrain_model: except Exception returns status "error"
RetrainExcept(t) ==
    /\ phase = "serving"
    /\ tpc[t] = "raised"
    /\ Leave(t, "error")
    /\ UNCHANGED <<phase, memVars, disk, nfits, predVars, gen, cron>>

\* module level: training at import time returned; the app starts serving
ImportDone ==
    /\ phase = "import"
    /\ tpc[MainThread] = "returned"
    /\ phase' = "serving"
    /\ Leave(MainThread, "success")
    /\ UNCHANGED <<memVars, disk, nfits, predVars, gen, cron>>

\* module level: nothing catches an exception of the import-time
\* train_model, the import fails and the process ends
ImportFail ==
    /\ phase = "import"
    /\ tpc[MainThread] = "raised"
    /\ phase' = "down"
    /\ Leave(MainThread, "error")
    /\ died' = "import failed"
    /\ UNCHANGED <<memVars, disk, nfits, ppc, pused, req, out, gen, cron>>

SavePcs == {"save_model", "save_scaler", "save_encoder", "save_metadata"}

\* save_models has written a file and has another one to write
BetweenWritesPcs == {"save_scaler", "save_encoder", "save_metadata"}

FileOfPc(pc) ==
    CASE pc = "save_model" -> "model"
      [] pc = "save_scaler" -> "scaler"
      [] pc = "save_encoder" -> "label_encoder"
      [] pc = "save_metadata" -> "metadata"

\* the process is killed.  A write that was under way leaves a truncated
\* file (torn), except the skipped dump of a None model.
Crash(torn) ==
    /\ phase \in {"import", "serving"}
    /\ phase' = "down"
    /\ IF torn
       THEN \E t \in Threads :
               /\ tpc[t] \in SavePcs
               /\ ~(tpc[t] = "save_model" /\ model = NoModel)
               /\ disk' = [disk EXCEPT ![FileOfPc(tpc[t])] = Corrupt]
       ELSE UNCHANGED disk
    /\ tpc' = [t \in Threads |-> "idle"]
    /\ tfit' = [t \in Threads |-> 0]
    /\ treq' = [t \in Threads |-> DefaultConfig.model_type]
    /\ tpre' = [t \in Threads |-> ConstructedPipeline]
    /\ ppc' = "idle"
    /\ pused' = NothingUsed
    /\ died' = IF torn \/ \E t \in Threads : tpc[t] \in BetweenWritesPcs
               THEN "killed between writes" ELSE "killed"
    /\ UNCHANGED <<memVars, nfits, tres, req, out, gen, cron>>

\* a new process: __init__ builds the pipeline and calls load_models
Restart ==
    /\ phase = "down"
    /\ phase' = "constructed"
    /\ config' = DefaultConfig
    /\ model' = LoadedModel(disk)
    /\ scaler' = LoadedScaler(disk)
    /\ label_encoder' = LoadedEncoder(disk)
    /\ is_trained' = LoadedIsTrained(disk)
    /\ tres' = [t \in Threads |-> "none"]
    /\ UNCHANGED <<disk, nfits, tpc, tfit, treq, tpre,
                   predVars, gen, cron>>

----------------------------------------------------------------------------
(* One request at a time: the main thread alone.                           *)

TrainStep(t) ==
    \/ \E raise \in BOOLEAN : Acquire(t, raise)
    \/ \E raise \in BOOLEAN : PrepareFeatures(t, raise)
    \/ \E raise \in BOOLEAN : Split(t, raise)
    \/ \E raise \in BOOLEAN : ScaleFeatures(t, raise)
    \/ ConstructModel(t)
    \/ \E raise \in BOOLEAN : FitModel(t, raise)
    \/ \E raise \in BOOLEAN : Evaluate(t, raise)
    \/ \E raise \in BOOLEAN : CrossValidate(t, raise)
    \/ MarkTrained(t)
    \/ \E raise \in BOOLEAN : SaveModel(t, raise)
    \/ \E raise \in BOOLEAN : SaveScaler(t, raise)
    \/ \E raise \in BOOLEAN : SaveEncoder(t, raise)
    \/ \E raise \in BOOLEAN : SaveMetadata(t, raise)
    \/ ReturnMetrics(t)

Next ==
    \/ ImportCheck
    \/ ImportDone
    \/ ImportFail
    \/ \E mt \in RequestedModelTypes : Retrain(MainThread, mt)
    \/ TrainStep(MainThread)
    \/ RetrainSuccess(MainThread)
    \/ RetrainExcept(MainThread)
    \/ \E torn \in BOOLEAN : Crash(torn)
    \/ Restart

Spec == Init /\ [][Next]_vars

----------------------------------------------------------------------------
(* predict_flood_risk on the /predict thread, one action per read of the   *)
(* shared pipeline.  retrain_model and predict are plain `def` handlers:   *)
(* the server runs each request on a worker thread, and nothing in the     *)
(* pipeline takes a lock.                                                  *)

lifeVars == <<phase, memVars, disk, nfits, threadVars, req, out, died, gen,
             cron>>

\* the objects a reader may find while thread t is inside the library call
\* of its current stage: the object as it is, or the object in the middle
\* of being refitted in place
ScalerViews ==
    {scaler} \cup {[fit |-> tfit[t], st |-> "fitting"] :
                      t \in {u \in Threads : tpc[u] = "scale"}}

ModelViews ==
    {model} \cup {[model EXCEPT !.fit = tfit[t], !.st = "fitting"] :
                     t \in {u \in Threads : tpc[u] = "fit" /\ model # NoModel}}

\* if not self.is_trained: return self._simple_flood_risk(...)
PredictCheck ==
    /\ phase = "serving"
    /\ ppc = "idle"
    /\ ppc' = IF is_trained THEN "encode" ELSE "fallback"
    /\ pused' = NothingUsed
    /\ UNCHANGED lifeVars

\* self.label_encoder.transform([state_code]); a ValueError (which the
\* not-fitted error is) is caught and the code 0 used
PredictEncode ==
    /\ ppc = "encode"
    /\ pused' = [pused EXCEPT !.label_encoder = label_encoder]
    /\ ppc' = "scale"
    /\ UNCHANGED lifeVars

\* self.scaler.transform(features)
PredictScale ==
    /\ ppc = "scale"
    /\ \E v \in ScalerViews :
          /\ pused' = [pused EXCEPT !.scaler = v]
          /\ ppc' = IF v.st = "unfitted" THEN "raised" ELSE "predict"
    /\ UNCHANGED lifeVars

\* self.model.predict(features_scaled)
PredictModel ==
    /\ ppc = "predict"
    /\ \E v \in ModelViews :
          /\ pused' = [pused EXCEPT !.model = v]
          /\ ppc' = IF v.st \in {"none", "unfitted"} THEN "raised"
                    ELSE "done"
    /\ UNCHANGED lifeVars

\* the handler returns (or its exception leaves the handler)
PredictReturn ==
    /\ ppc \in {"done", "raised", "fallback"}
    /\ ppc' = "idle"
    /\ pused' = NothingUsed
    /\ UNCHANGED lifeVars

----------------------------------------------------------------------------
(* The server under load: two /retrain requests and a /predict request     *)
(* may overlap.  Stages raise only for what the other threads did.         *)

TrainStepQuiet(t) ==
    \/ Acquire(t, FALSE)
    \/ PrepareFeatures(t, FALSE)
    \/ Split(t, FALSE)
    \/ ScaleFeatures(t, FALSE)
    \/ ConstructModel(t)
    \/ FitModel(t, FALSE)
    \/ Evaluate(t, FALSE)
    \/ CrossValidate(t, FALSE)
    \/ MarkTrained(t)
    \/ SaveModel(t, FALSE)
    \/ SaveScaler(t, FALSE)
    \/ SaveEncoder(t, FALSE)
    \/ SaveMetadata(t, FALSE)
    \/ ReturnMetrics(t)

NextServe ==
    \/ ImportCheck
    \/ ImportDone
    \/ \E mt \in RequestedModelTypes : Retrain(MainThread, mt)
    \/ TrainStep(MainThread)
    \/ RetrainSuccess(MainThread)
    \/ RetrainExcept(MainThread)
    \/ PredictCheck
    \/ PredictEncode
    \/ PredictScale
    \/ PredictModel
    \/ PredictReturn

\* /predict requests while one /retrain request at a time is served
SpecServe == Init /\ [][NextServe]_vars

NextRetrain ==
    \/ ImportCheck
    \/ ImportDone
    \/ \E t \in Threads : \E mt \in RequestedModelTypes : Retrain(t, mt)
    \/ \E t \in Threads : TrainStepQuiet(t)
    \/ \E t \in Threads : RetrainSuccess(t)
    \/ \E t \in Threads : RetrainExcept(t)

\* two /retrain requests that may overlap
SpecRetrain == Init /\ [][NextRetrain]_vars

----------------------------------------------------------------------------
(* Numbers.  A risk is an integer number of 1/One; a confidence returned   *)
(* by predict_flood_risk is a number of tenths; the risk and confidence    *)
(* lists of a response are numbers of thousandths (round(x, 3)).           *)
(* Readings: rainfall in mm, river level in tenths of a metre, soil        *)
(* moisture in hundredths, temperature in degrees.  A dict value is <<>>   *)
(* for None and <<n>> for the number n.                                    *)

\* the risk 1.0
One == 6000

Min(a, b) == IF a < b THEN a ELSE b

Max(a, b) == IF a > b THEN a ELSE b

\* n / d rounded to the nearest integer
RoundDiv(n, d) == (2 * n + d) \div (2 * d)

IsNone(v) == v = <<>>

\* conditions.get(key, default)
Get(c, key, default) == IF key \in DOMAIN c THEN c[key] ELSE <<default>>

\* the keys the trained path reads into the feature vector
FeatureKeys ==
    {"temperature", "humidity", "pressure", "wind_speed", "wind_direction",
     "precipitation", "rainfall_24h", "rainfall_7d", "soil_moisture",
     "river_level"}

\* the keys of current_conditions in calculate_nigeria_flood_risk
CalcKeys ==
    {"rainfall_24h", "rainfall_7d", "river_level", "soil_moisture",
     "temperature", "humidity", "pressure", "wind_speed", "wind_direction"}

\* the keys calculate_nigeria_flood_risk rounds into the response factors
RoundedKeys ==
    {"rainfall_24h", "river_level", "soil_moisture", "temperature",
     "humidity", "pressure"}

\* the keys _simple_flood_risk computes with
HeuristicKeys == {"rainfall_24h", "river_level", "soil_moisture", "temperature"}

\* the keys _generate_recommendations compares with a threshold
RecommendationKeys == {"rainfall_24h", "river_level", "soil_moisture"}

\* some key of ks is in the dict with the value None
HasNone(c, ks) == \E k \in ks \cap DOMAIN c : IsNone(c[k])

Raise(e) == [status |-> "raise", error |-> e]

\* the if / elif chain on the risk, the same in both predict paths
Level(risk) ==
    IF risk > (8 * One) \div 10 THEN "EMERGENCY"
    ELSE IF risk > (6 * One) \div 10 THEN "WARNING"
    ELSE IF risk > (4 * One) \div 10 THEN "WATCH"
    ELSE "INFO"

\* the clamp without its upper limit
Clamp01_NoCeiling(risk) == Max(0, risk)

\* max(0.0, min(1.0, risk))
Clamp01(risk) == Max(0, Min(One, risk))

----------------------------------------------------------------------------
(* _generate_recommendations *)

Headline(risk) ==
    IF risk > (8 * One) \div 10
    THEN <<"EMERGENCY: Evacuate low-lying areas immediately",
           "Activate emergency response protocols">>
    ELSE IF risk > (6 * One) \div 10
    THEN <<"WARNING: Prepare for potential flooding",
           "Monitor river levels closely">>
    ELSE IF risk > (4 * One) \div 10
    THEN <<"WATCH: Monitor conditions closely",
           "Prepare emergency supplies">>
    ELSE <<"INFO: Normal conditions expected">>

\* the f-string names the state; the model keeps the fixed part
StateItems(code) ==
    IF KnownState(code)
       /\ nigeria_states[code].flood_risk \in {"high", "critical"}
    THEN <<"High-risk state - Extra vigilance required">>
    ELSE <<>>

ConditionItem(c, key, threshold, text) ==
    IF Get(c, key, 0)[1] > threshold THEN <<text>> ELSE <<>>

\* None > 30 is a TypeError
GenerateRecommendations(risk, c, code) ==
    IF HasNone(c, RecommendationKeys) THEN Raise("TypeError")
    ELSE [status |-> "ok",
          list |-> Headline(risk) \o StateItems(code)
                   \o ConditionItem(c, "rainfall_24h", 30,
                        "High rainfall detected - monitor river levels")
                   \o ConditionItem(c, "river_level", 30,
                        "River levels elevated - check flood defenses")
                   \o ConditionItem(c, "soil_moisture", 80,
                        "High soil moisture - increased runoff risk")]

----------------------------------------------------------------------------
(* _simple_flood_risk *)

StateRiskFactor(code) ==
    IF KnownState(code)
    THEN CASE nigeria_states[code].flood_risk = "low" -> 1
           [] nigeria_states[code].flood_risk = "medium" -> 3
           [] nigeria_states[code].flood_risk = "high" -> 6
           [] nigeria_states[code].flood_risk = "critical" -> 8
    ELSE 3

\* the weighted sum with the soil term taken as drainage: subtracted
HeuristicRisk_SoilDrains(rainfall, river, soil, temperature, factor) ==
    (3 * One * Min(50, rainfall)) \div 500
    + (One * Min(30, Max(0, river - 20))) \div 120
    - (15 * One * soil) \div 10000
    + (One * Max(0, temperature - 25)) \div 100
    + (2 * One * factor) \div 100

\* 0.3 * min(1, rainfall/50) + 0.25 * min(1, max(0, river - 2)/3)
\* + 0.15 * soil + 0.1 * max(0, (temperature - 25)/10) + 0.2 * state factor
HeuristicRisk(rainfall, river, soil, temperature, factor) ==
    (3 * One * Min(50, rainfall)) \div 500
    + (One * Min(30, Max(0, river - 20))) \div 120
    + (15 * One * soil) \div 10000
    + (One * Max(0, temperature - 25)) \div 100
    + (2 * One * factor) \div 100

SimpleFloodRisk(c, code) ==
    IF HasNone(c, HeuristicKeys) THEN Raise("TypeError")
    ELSE LET risk == Clamp01(HeuristicRisk(Get(c, "rainfall_24h", 0)[1],
                                           Get(c, "river_level", 20)[1],
                                           Get(c, "soil_moisture", 50)[1],
                                           Get(c, "temperature", 25)[1],
                                           StateRiskFactor(code)))
             recs == GenerateRecommendations(risk, c, code)
         IN  IF recs.status = "raise" THEN recs
             ELSE [status |-> "ok", path |-> "fallback",
                   flood_risk |-> risk,
                   confidence |-> 6,
                   level |-> Level(risk),
                   state_code |-> code,
                   region |-> IF code \in DOMAIN nigeria_states
                              THEN nigeria_states[code].region
                              ELSE "Unknown",
                   recommendations |-> recs.list,
                   factors |-> c]

----------------------------------------------------------------------------
(* predict_flood_risk, the trained path *)

\* the state the trained path predicts for: the request's, or FCT
ResolvedState(code) == IF KnownState(code) THEN code ELSE "FCT"

\* self.label_encoder.transform([state_code])[0]; a state the encoder has
\* not seen (or an encoder never fitted) is a ValueError: code 0
StateEncoded(code) ==
    IF label_encoder.st = "fitted" /\ code \in label_encoder.classes
    THEN LabelEncode(label_encoder.classes, SortedStates, code)
    ELSE 0

\* a fresh LabelEncoder fitted on the regions of the whole registry
RegionEncoded(region) ==
    LabelEncode(TrainingRegions(DOMAIN nigeria_states), SortedRegions, region)

\* sum(1 for v in conditions.values() if v is None)
MissingFeatures(c) == Cardinality({k \in DOMAIN c : IsNone(c[k])})

\* 0.8, minus 0.1 per None value, at least 0.3
Confidence(c) == Max(3, 8 - MissingFeatures(c))

\* np.array turns a None feature into NaN; the scaler lets NaN pass, the
\* gradient-boosting predict rejects it (ValueError), and the random
\* forest rejects or accepts it with the installed library (`lenient`).
\* `raw` is the number the regressor returns.
TrainedFloodRisk(c, code, raw, lenient) ==
    LET sc == IF KnownState(code) THEN code ELSE "FCT"
        region == IF KnownState(code) THEN nigeria_states[code].region
                  ELSE "North Central"
    IN  IF scaler.st # "fitted" THEN Raise("NotFittedError")
        ELSE IF model.st = "none" THEN Raise("AttributeError")
        ELSE IF model.st # "fitted" THEN Raise("NotFittedError")
        ELSE IF HasNone(c, FeatureKeys)
                /\ ~(lenient /\ model.family = "random_forest")
        THEN Raise("ValueError")
        ELSE LET risk == Clamp01(raw)
                 recs == GenerateRecommendations(risk, c, sc)
             IN  IF recs.status = "raise" THEN recs
                 ELSE [status |-> "ok", path |-> "trained",
                       flood_risk |-> risk,
                       confidence |-> Confidence(c),
                       level |-> Level(risk),
                       state_code |-> sc,
                       region |-> region,
                       recommendations |-> recs.list,
                       factors |->
                         [rainfall_24h |-> Get(c, "rainfall_24h", 0),
                          river_level |-> Get(c, "river_level", 20),
                          soil_moisture |-> Get(c, "soil_moisture", 50),
                          temperature |-> Get(c, "temperature", 25),
                          humidity |-> Get(c, "humidity", 65),
                          state_risk |-> nigeria_states[sc].flood_risk]]

\* predict_flood_risk
PredictFloodRisk(c, code, raw, lenient) ==
    IF ~is_trained THEN SimpleFloodRisk(c, code)
    ELSE TrainedFloodRisk(c, code, raw, lenient)

----------------------------------------------------------------------------
(* calculate_nigeria_flood_risk *)

\* 168 hours = 1 week, in time_factor and in the confidence decay
WeekHours == 168

\* random.uniform(lo, hi) for a reading the request left out: `draw`
\* picks the low or the high end of each range
RandomDefault(key, draw) ==
    CASE key = "rainfall_24h" -> IF draw = "lo" THEN 0 ELSE 20
      [] key = "rainfall_7d" -> IF draw = "lo" THEN 0 ELSE 50
      [] key = "river_level" -> IF draw = "lo" THEN 15 ELSE 40
      [] key = "soil_moisture" -> IF draw = "lo" THEN 30 ELSE 80
      [] key = "temperature" -> IF draw = "lo" THEN 20 ELSE 30
      [] key = "humidity" -> IF draw = "lo" THEN 50 ELSE 80
      [] key = "pressure" -> IF draw = "lo" THEN 1000 ELSE 1020
      [] key = "wind_speed" -> IF draw = "lo" THEN 1 ELSE 10
      [] key = "wind_direction" -> IF draw = "lo" THEN 0 ELSE 360

\* conditions.get(key, random.uniform(...)) for the nine keys: a key that
\* is present keeps its value, None included; other keys are dropped
CurrentConditions(c, draw) ==
    [k \in CalcKeys |-> Get(c, k, RandomDefault(k, draw))]

\* random.uniform(0, 15 / 25 / 35) by horizon length: either end
ForecastRange(hours) ==
    IF hours <= 24 THEN {0, 15}
    ELSE IF hours <= 48 THEN {0, 25}
    ELSE {0, 35}

ForecastChoices(horizons) ==
    {f \in [1..Len(horizons) -> {0, 15, 25, 35}] :
        \A i \in 1..Len(horizons) : f[i] \in ForecastRange(horizons[i])}

RECURSIVE SumTo(_, _)
\* sum(forecast_rainfall[:i])
SumTo(f, i) == IF i = 0 THEN 0 ELSE f[i] + SumTo(f, i - 1)

\* min(1.0, (base_risk + 0.3 * min(1.0, rain / 50)) * (1 + hours/168 * 0.3))
\* as a number of 1 / (One * 10 * WeekHours)
AdjustedRisk(base_risk, rain, hours) ==
    Min(One * 10 * WeekHours,
        (base_risk + (3 * One * Min(50, rain)) \div 500)
        * (10 * WeekHours + 3 * hours))

\* round(adjusted_risk, 3), in thousandths
RoundedRisk(base_risk, rain, hours) ==
    RoundDiv(AdjustedRisk(base_risk, rain, hours),
             (One * 10 * WeekHours) \div 1000)

\* the decay without its floor
AdjustedConfidence_NoFloor(base_confidence, hours) ==
    base_confidence * (10 * WeekHours - 4 * hours)

\* max(0.3, base_confidence * (1 - hours/168 * 0.4)) as a number of
\* 1 / (100 * WeekHours); base_confidence in tenths
AdjustedConfidence(base_confidence, hours) ==
    Max(30 * WeekHours, base_confidence * (10 * WeekHours - 4 * hours))

\* round(confidence, 3), in thousandths
RoundedConfidence(base_confidence, hours) ==
    RoundDiv(AdjustedConfidence(base_confidence, hours) * 1000,
             100 * WeekHours)

SeqMax(q) == CHOOSE x \in {q[i] : i \in DOMAIN q} :
                \A i \in DOMAIN q : q[i] <= x

\* the headline appended to the list, not inserted at its head
InsertHeadline_Appends(recs, max_risk) ==
    IF max_risk > 800
    THEN recs \o <<"EMERGENCY: Evacuate low-lying areas immediately">>
    ELSE IF max_risk > 600
    THEN recs \o <<"WARNING: Prepare for potential flooding">>
    ELSE IF max_risk > 400
    THEN recs \o <<"WATCH: Monitor conditions closely">>
    ELSE recs

\* recommendations.insert(0, ...) on max(risk_scores)
InsertHeadline(recs, max_risk) ==
    IF max_risk > 800
    THEN <<"EMERGENCY: Evacuate low-lying areas immediately">> \o recs
    ELSE IF max_risk > 600
    THEN <<"WARNING: Prepare for potential flooding">> \o recs
    ELSE IF max_risk > 400
    THEN <<"WATCH: Monitor conditions closely">> \o recs
    ELSE recs

\* The readings of the model are whole numbers of the unit round() keeps,
\* so the rounding of the response factors changes none of them.
ResponseFactors(cc, base, forecast) ==
    [rainfall_24h |-> cc["rainfall_24h"],
     river_level |-> cc["river_level"],
     soil_moisture |-> cc["soil_moisture"],
     temperature |-> cc["temperature"],
     humidity |-> cc["humidity"],
     pressure |-> cc["pressure"],
     forecast_rainfall |-> forecast,
     model_used |-> IF is_trained THEN "Nigeria GradientBoostingRegressor"
                    ELSE "Simple",
     state_risk |-> IF "state_risk" \in DOMAIN base.factors
                    THEN base.factors["state_risk"] ELSE "medium"]

\* max() of an empty list is a ValueError; round(None, 1) is a TypeError
CalculateNigeriaFloodRisk(horizons, c, code, raw, lenient, draw, forecast) ==
    LET cc == CurrentConditions(c, draw)
        base == PredictFloodRisk(cc, code, raw, lenient)
    IN  IF base.status = "raise" THEN base
        ELSE IF Len(horizons) = 0 THEN Raise("ValueError")
        ELSE IF HasNone(cc, RoundedKeys) THEN Raise("TypeError")
        ELSE LET risk_scores ==
                   [i \in 1..Len(horizons) |->
                      RoundedRisk(base.flood_risk, SumTo(forecast, i),
                                  horizons[i])]
                 confidence_scores ==
                   [i \in 1..Len(horizons) |->
                      RoundedConfidence(base.confidence, horizons[i])]
             IN  [status |-> "ok",
                  horizon |-> horizons,
                  risk |-> risk_scores,
                  confidence |-> confidence_scores,
                  factors |-> ResponseFactors(cc, base, forecast),
                  recommendations |->
                    InsertHeadline(base.recommendations, SeqMax(risk_scores)),
                  state_code |-> code,
                  region |-> base.region,
                  base |-> base]

----------------------------------------------------------------------------
(* Prediction requests, one per behaviour, on a pipeline that is either    *)
(* as constructed (no artifacts, before any training) or trained and       *)
(* serving.                                                                *)

TrainedPipeline(family, df) ==
    [is_trained |-> TRUE, config |-> [model_type |-> family],
     model |-> [fit |-> 1, family |-> family, st |-> "fitted",
                nfeat |-> NumFeatures],
     scaler |-> [fit |-> 1, st |-> "fitted"],
     label_encoder |-> [fit |-> 1, st |-> "fitted", classes |-> df]]

TrainedDisk(p) ==
    [model |-> File(p.model), scaler |-> File(p.scaler),
     label_encoder |-> IF p.label_encoder.st = "fitted"
                       THEN File(p.label_encoder) ELSE Absent,
     metadata |-> File([trained_at |-> 1, is_trained |-> TRUE,
                        model_type |-> p.config.model_type,
                        nfeat |-> NumFeatures])]

\* load_models on a models directory that holds the metadata, the model
\* and the scaler of a training but not its label_encoder.pkl: the
\* os.path.exists test skips the encoder and is_trained is the metadata's
PipelineWithoutEncoder ==
    [TrainedPipeline(DefaultConfig.model_type, DOMAIN nigeria_states)
       EXCEPT !.label_encoder = FreshEncoder]

Pipelines ==
    {ConstructedPipeline, PipelineWithoutEncoder}
    \cup {TrainedPipeline(f, DOMAIN nigeria_states) : f \in SupportedModelTypes}
    \cup {TrainedPipeline(DefaultConfig.model_type, df) : df \in TrainingSets}

\* a full set of readings
Observation(rainfall, river, soil, temperature) ==
    [k \in FeatureKeys |->
       CASE k = "rainfall_24h" -> <<rainfall>>
         [] k = "river_level" -> <<river>>
         [] k = "soil_moisture" -> <<soil>>
         [] k = "temperature" -> <<temperature>>
         [] k = "humidity" -> <<60>>
         [] k = "pressure" -> <<1013>>
         [] k = "wind_speed" -> <<3>>
         [] k = "wind_direction" -> <<180>>
         [] k = "precipitation" -> <<0>>
         [] k = "rainfall_7d" -> <<10>>]

\* the dict without the keys ks
Without(c, ks) == [k \in DOMAIN c \ ks |-> c[k]]

\* the dict with the keys ks set to None
WithNone(c, ks) ==
    [k \in DOMAIN c \cup ks |-> IF k \in ks THEN <<>> ELSE c[k]]

LowObservation == Observation(5, 20, 40, 25)

HighObservation == Observation(60, 45, 90, 25)

HotObservation == Observation(31, 31, 81, 35)

\* readings below every term's zero
NegativeObservation == Observation(-400, 0, -300, 0)

\* keys a caller may send beside the readings
ExtraKeys == <<"sensor_id", "station", "source", "operator", "quality",
               "comment", "note", "batch">>

ExtraPrefix(n) == {ExtraKeys[i] : i \in 1..Min(n, Len(ExtraKeys))}

ObservationSet ==
    {LowObservation, HighObservation, HotObservation, NegativeObservation}
    \cup {Without(LowObservation, RecommendationKeys),
          Without(LowObservation, FeatureKeys)}
    \cup {WithNone(LowObservation, ks) :
            ks \in {{"wind_speed"}, {"humidity"}, RecommendationKeys}}
    \cup {WithNone(Without(LowObservation, FeatureKeys), {"rainfall_24h"})}
    \cup {WithNone(HighObservation, ExtraPrefix(n)) : n \in 1..MaxExtraNone}

\* critical, low, medium, not in the registry, lower case, absent
StateCodeSet == {"LA", "BO", "FCT", "XX", "la", NoneCode}

\* negative, zero, within a day, three weeks
HorizonValues == {-24, 0, 24, 504}

HorizonLists ==
    UNION {[1..n -> HorizonValues] : n \in 0..MaxHorizons}

\* what the fitted regressor may return, on both sides of each threshold
RawPredictions ==
    {-One \div 5, (4 * One) \div 10, (4 * One) \div 10 + 1,
     (6 * One) \div 10 + 1, (8 * One) \div 10, (8 * One) \div 10 + 1,
     One + One \div 5}

\* calculate_nigeria_flood_risk hands the state code to predict_flood_risk
\* and echoes it, so the lower-case code, the medium-risk state and the
\* pipelines trained on part of the registry are followed on the direct
\* calls.
Requests ==
    {[entry |-> "direct", conditions |-> c, state_code |-> code,
      horizon_hours |-> <<>>] :
        c \in ObservationSet, code \in StateCodeSet}
    \cup
    {[entry |-> "calculate", conditions |-> c, state_code |-> code,
      horizon_hours |-> hs] :
        c \in ObservationSet, code \in StateCodeSet \ {"la", "FCT"},
        hs \in HorizonLists}
    \cup
    {[entry |-> "sensor", type |-> ty, value |-> v] :
        ty \in {"RAIN", "RIVER", "WATER_LEVEL", "TEMPERATURE", "UNKNOWN"},
        v \in {<<>>, <<0>>, <<3>>, <<60>>}}

InitPredict ==
    /\ \E p \in Pipelines :
          /\ is_trained = p.is_trained
          /\ config = p.config
          /\ model = p.model
          /\ scaler = p.scaler
          /\ label_encoder = p.label_encoder
          /\ phase = IF p.is_trained THEN "serving" ELSE "constructed"
          /\ disk = IF p.is_trained THEN TrainedDisk(p) ELSE EmptyDisk
          /\ nfits = IF p.is_trained THEN 1 ELSE 0
    /\ tpc = [t \in Threads |-> "idle"]
    /\ tfit = [t \in Threads |-> 0]
    /\ treq = [t \in Threads |-> DefaultConfig.model_type]
    /\ tpre = [t \in Threads |-> ConstructedPipeline]
    /\ tres = [t \in Threads |-> "none"]
    /\ ppc = "idle"
    /\ pused = NothingUsed
    /\ req \in Requests
    /\ req.entry \in {"calculate", "sensor"}
          => phase = "serving" /\ label_encoder.classes = DOMAIN nigeria_states
    /\ out = NoResult
    /\ died = "none"
    /\ gen = NoGeneration
    /\ cron = NoCron

\* a direct call of the pipeline's predict_flood_risk
PredictDirect ==
    /\ req.entry = "direct"
    /\ out = NoResult
    /\ \E raw \in RawPredictions, lenient \in BOOLEAN :
          out' = PredictFloodRisk(req.conditions, req.state_code, raw, lenient)
    /\ UNCHANGED <<phase, memVars, disk, nfits, threadVars, ppc, pused, req,
                   died, gen, cron>>

\* calculate_nigeria_flood_risk with the defaults stored back into the mapping
\* the caller passed (setdefault in place of get)
Predict_StoresDefaults ==
    /\ req.entry = "calculate"
    /\ phase = "serving"
    /\ out = NoResult
    /\ \E raw \in RawPredictions, lenient \in BOOLEAN, draw \in {"lo", "hi"},
          forecast \in ForecastChoices(req.horizon_hours) :
          /\ out' = CalculateNigeriaFloodRisk(req.horizon_hours,
                                              req.conditions, req.state_code,
                                              raw, lenient, draw, forecast)
          /\ req' = [req EXCEPT
                        !.conditions = CurrentConditions(req.conditions, draw)]
    /\ UNCHANGED <<phase, memVars, disk, nfits, threadVars, ppc, pused,
                   died, gen, cron>>

\* POST /predict: calculate_nigeria_flood_risk on the request's fields
Predict ==
    /\ req.entry = "calculate"
    /\ phase = "serving"
    /\ out = NoResult
    /\ \E raw \in RawPredictions, lenient \in BOOLEAN, draw \in {"lo", "hi"},
          forecast \in ForecastChoices(req.horizon_hours) :
          out' = CalculateNigeriaFloodRisk(req.horizon_hours, req.conditions,
                                           req.state_code, raw, lenient, draw,
                                           forecast)
    /\ UNCHANGED <<phase, memVars, disk, nfits, threadVars, ppc, pused, req,
                   died, gen, cron>>

\* process_sensor_data on the dict of the request. The name it calls for
\* the assessment, calculate_flood_risk, is bound nowhere in main.py (the
\* function of line 68 is calculate_nigeria_flood_risk, and no import brings
\* the name in), so the call is a NameError and the handler's except
\* Exception answers. The field prediction (the local variable) is kept with
\* the response to show whether an assessment was made.
ProcessSensorData(sensor_data) ==
    LET value == sensor_data.value
        sensor_type == sensor_data.type
        prediction ==
            IF sensor_type \in {"RAIN", "RIVER", "WATER_LEVEL"}
               /\ ~IsNone(value)
            THEN Raise("NameError")
            ELSE NoResult
    IN  IF prediction.status = "raise"
        THEN [status |-> "error", message |-> prediction.error,
              prediction |-> prediction]
        ELSE [status |-> "success", value |-> value, type |-> sensor_type,
              prediction |-> prediction]

\* POST /process-sensor-data
ProcessSensor ==
    /\ req.entry = "sensor"
    /\ phase = "serving"
    /\ out = NoResult
    /\ out' = ProcessSensorData(req)
    /\ UNCHANGED <<phase, memVars, disk, nfits, threadVars, ppc, pused, req,
                   died, gen, cron>>

NextPredict ==
    \/ PredictDirect
    \/ Predict
    \/ ProcessSensor

SpecPredict == InitPredict /\ [][NextPredict]_vars

----------------------------------------------------------------------------
(* generate_nigeria_synthetic_dataset.  np.random.seed(42) restarts the    *)
(* random stream, so every run draws the same numbers: `draws` is the      *)
(* stream the seed yields, one entry per row, fixed for the behaviour.     *)
(* datetime.now() is the clock `now`, which moves on its own.              *)

\* the state a row is drawn for
GeneratedStates == {"LA", "BO"}

\* np.random.randint(0, 365): the age of a row in days
GeneratedDays == {30}

\* one row's draws: the state, the weighted risk with its noise before
\* the clamp, the age of the row
RowDraws ==
    {[state |-> st, noisy |-> w, days |-> d] :
        st \in GeneratedStates, w \in RawPredictions, d \in GeneratedDays}

\* the level with the thresholds taken as >=
FloodLevel_Inclusive(flood_risk) ==
    IF flood_risk >= (8 * One) \div 10 THEN "EMERGENCY"
    ELSE IF flood_risk >= (6 * One) \div 10 THEN "WARNING"
    ELSE IF flood_risk >= (4 * One) \div 10 THEN "WATCH"
    ELSE "INFO"

\* flood_level of a generated row
FloodLevel(flood_risk) ==
    IF flood_risk > (8 * One) \div 10 THEN "EMERGENCY"
    ELSE IF flood_risk > (6 * One) \div 10 THEN "WARNING"
    ELSE IF flood_risk > (4 * One) \div 10 THEN "WATCH"
    ELSE "INFO"

\* the generator's risk before the noise: 0.3 * min(1, rainfall/50)
\* + 0.25 * min(1, max(0, river - 2)/3) + 0.15 * soil
\* + 0.1 * max(0, (temperature - 30)/10) + 0.05 * humidity/100
\* + 0.15 * state factor
WeightedRisk(rainfall, river, soil, temperature, humidity, factor) ==
    (3 * One * Min(50, rainfall)) \div 500
    + (One * Min(30, Max(0, river - 20))) \div 120
    + (15 * One * soil) \div 10000
    + (One * Max(0, temperature - 30)) \div 100
    + (5 * One * humidity) \div 10000
    + (15 * One * factor) \div 1000

\* min(1.0, max(0.0, flood_risk + noise))
NoisyRisk(noisy) == Min(One, Max(0, noisy))

\* the dict appended to data, in the columns the model keeps
GeneratedRow(d, now) ==
    LET flood_risk == NoisyRisk(d.noisy)
    IN  [timestamp |-> now - d.days,
         state_code |-> d.state,
         region |-> nigeria_states[d.state].region,
         flood_risk |-> flood_risk,
         flood_level |-> FloodLevel(flood_risk)]

InitGenerate ==
    /\ phase = "constructed"
    /\ is_trained = FALSE
    /\ config = DefaultConfig
    /\ model = NoModel
    /\ scaler = FreshScaler
    /\ label_encoder = FreshEncoder
    /\ disk = EmptyDisk
    /\ nfits = 0
    /\ tpc = [t \in Threads |-> "idle"]
    /\ tfit = [t \in Threads |-> 0]
    /\ treq = [t \in Threads |-> DefaultConfig.model_type]
    /\ tpre = [t \in Threads |-> ConstructedPipeline]
    /\ tres = [t \in Threads |-> "none"]
    /\ ppc = "idle"
    /\ pused = NothingUsed
    /\ req = NoRequest
    /\ out = NoResult
    /\ died = "none"
    /\ cron = NoCron
    /\ \E n \in 1..MaxSamples :
          \E draws \in [1..n -> RowDraws] :
             gen = [NoGeneration EXCEPT !.n = n, !.draws = draws]

genRest == <<phase, memVars, disk, nfits, threadVars, ppc, pused, req, out,
             died, cron>>

\* the call: np.random.seed(42), data = []
GenerateStart ==
    /\ gen.pc = "idle"
    /\ gen.run < 2
    /\ gen' = [gen EXCEPT !.pc = "rows", !.i = 0, !.rows = <<>>]
    /\ UNCHANGED genRest

\* one pass of the loop
GenerateRow ==
    /\ gen.pc = "rows"
    /\ gen.i < gen.n
    /\ gen' = [gen EXCEPT
                 !.i = gen.i + 1,
                 !.rows = Append(gen.rows,
                                 GeneratedRow(gen.draws[gen.i + 1], gen.now))]
    /\ UNCHANGED genRest

\* return pd.DataFrame(data); the model keeps the first run's frame
GenerateReturn ==
    /\ gen.pc = "rows"
    /\ gen.i = gen.n
    /\ gen' = [gen EXCEPT
                 !.pc = "idle",
                 !.run = gen.run + 1,
                 !.first = IF gen.run = 0 THEN gen.rows ELSE gen.first]
    /\ UNCHANGED genRest

\* a day passes
Tick ==
    /\ gen.now < MaxClock
    /\ gen' = [gen EXCEPT !.now = gen.now + 1]
    /\ UNCHANGED genRest

NextGenerate ==
    \/ GenerateStart
    \/ GenerateRow
    \/ GenerateReturn
    \/ Tick

SpecGenerate == InitGenerate /\ [][NextGenerate]_vars

----------------------------------------------------------------------------
(* scripts/weather_cron.py: one run of main() *)

DEFAULT_LOCATIONS == <<"Berlin", "London", "New York", "Tokyo", "Sydney">>

\* FloodPredictionModel.train_models(self, df=None): Python binds the
\* call's keyword arguments to the parameters before the body runs, and a
\* keyword that names no parameter is a TypeError
TrainModels(kwargs) ==
    IF DOMAIN kwargs \subseteq {"df"}
    THEN [status |-> "ok"]
    ELSE Raise("TypeError")

\* retrain_model_if_needed: True after flood_model.train_models returned,
\* False from the except branch
RetrainModelIfNeeded ==
    LET training_results ==
            TrainModels([use_real_data |-> TRUE, latitude |-> "berlin_lat",
                         longitude |-> "berlin_lon", days_back |-> 7])
    IN  training_results.status # "raise"

\* main() is entered and calls collect_weather_data
CronStart ==
    /\ cron.pc = "idle"
    /\ cron' = [cron EXCEPT !.pc = "collect"]
    /\ UNCHANGED <<phase, memVars, disk, nfits, threadVars, ppc, pused, req,
                   out, died, gen>>

\* one pass of the loop of collect_weather_data: ingest_current_weather
\* returns or raises
CollectLocation ==
    /\ cron.pc = "collect"
    /\ Len(cron.collected) < Len(DEFAULT_LOCATIONS)
    /\ \E ingested \in BOOLEAN :
          cron' = [cron EXCEPT
                     !.collected = Append(cron.collected, ingested),
                     !.success_count =
                         IF ingested THEN cron.success_count + 1
                         ELSE cron.success_count,
                     !.error_count =
                         IF ingested THEN cron.error_count
                         ELSE cron.error_count + 1]
    /\ UNCHANGED <<phase, memVars, disk, nfits, threadVars, ppc, pused, req,
                   out, died, gen>>

\* collect_weather_data returns its counts; main() tests success_count > 0
CronDecide ==
    /\ cron.pc = "collect"
    /\ Len(cron.collected) = Len(DEFAULT_LOCATIONS)
    /\ cron' = IF cron.success_count > 0
               THEN [cron EXCEPT !.pc = "retrain"]
               ELSE [cron EXCEPT
                       !.pc = "done",
                       !.log = "No weather data collected, skipping"]
    /\ UNCHANGED <<phase, memVars, disk, nfits, threadVars, ppc, pused, req,
                   out, died, gen>>

\* model_retrained = retrain_model_if_needed() and the line main() logs
CronRetrain ==
    /\ cron.pc = "retrain"
    /\ LET model_retrained == RetrainModelIfNeeded
       IN  cron' = [cron EXCEPT
                      !.pc = "done",
                      !.model_retrained =
                          IF model_retrained THEN "True" ELSE "False",
                      !.trainings =
                          IF model_retrained THEN cron.trainings + 1
                          ELSE cron.trainings,
                      !.log =
                          IF model_retrained
                          THEN "Cron job completed successfully!"
                          ELSE "Data collected but model retraining failed"]
    /\ UNCHANGED <<phase, memVars, disk, nfits, threadVars, ppc, pused, req,
                   out, died, gen>>

NextCron ==
    \/ CronStart
    \/ CollectLocation
    \/ CronDecide
    \/ CronRetrain

SpecCron == Init /\ [][NextCron]_vars

----------------------------------------------------------------------------
(* Claims about training, loading and saving.                              *)

\* the stages of train_model, up to its return
TrainPcs ==
    {"acquire", "prepare", "split", "scale", "construct", "fit", "evaluate",
     "cv", "mark", "save_model", "save_scaler", "save_encoder",
     "save_metadata", "importance"}

\* the stages before self.is_trained = True
BeforeMarkPcs ==
    {"acquire", "prepare", "split", "scale", "construct", "fit", "evaluate",
     "cv", "mark"}

\* C1: when train_model has raised on a pipeline that held a trained model,
\* is_trained, the model, the scaler and the label encoder are the ones in
\* place before the call.
C1_FailedTrainKeepsPriorState ==
    \A t \in Threads :
        (tpc[t] = "raised" /\ tpre[t].is_trained
         /\ tpre[t].model.st = "fitted")
        => /\ is_trained = tpre[t].is_trained
           /\ model = tpre[t].model
           /\ scaler = tpre[t].scaler
           /\ label_encoder = tpre[t].label_encoder

\* C2: a predict_flood_risk call that overlaps train_model encodes, scales
\* and predicts with a fitted label encoder, scaler and model of one and
\* the same fit, and never meets an unfitted or half-fitted one.
C2_PredictUsesOneCompleteFit ==
    /\ ppc # "raised"
    /\ ppc = "done" =>
          /\ pused.label_encoder.st = "fitted"
          /\ pused.scaler.st = "fitted"
          /\ pused.model.st = "fitted"
          /\ pused.scaler.fit = pused.label_encoder.fit
          /\ pused.model.fit = pused.label_encoder.fit

\* all four artifacts are there and the metadata describes the model
ArtifactsConsistent(d) ==
    /\ d.model.kind = "ok"
    /\ d.scaler.kind = "ok"
    /\ d.label_encoder.kind = "ok"
    /\ d.metadata.kind = "ok"
    /\ d.metadata.obj.model_type = d.model.obj.family
    /\ d.metadata.obj.nfeat = d.model.obj.nfeat

\* C3: load_models ends with is_trained = true only if the four artifacts
\* are all present and the metadata's model_type and feature count match
\* the loaded model.
C3_LoadTrainedOnlyIfConsistent ==
    (phase = "constructed" /\ is_trained) => ArtifactsConsistent(disk)

\* C4: after a process was killed between two writes of save_models,
\* load_models never ends with is_trained = true and a model, scaler and
\* label encoder of different fits.
C4_LoadAfterCrashNeverMixesFits ==
    (phase = "constructed" /\ died = "killed between writes" /\ is_trained)
    => /\ model.fit = scaler.fit
       /\ scaler.fit = label_encoder.fit

\* C5: in a train_model call that started with is_trained = false,
\* is_trained is false at every stage up to the end of cross-validation,
\* and false when the call has raised.
C5_UntrainedUntilFitCompletes ==
    \A t \in Threads :
        (~tpre[t].is_trained /\ tpc[t] \in BeforeMarkPcs \cup {"raised"})
        => ~is_trained

\* C6: at most one train_model runs on the shared pipeline at a time, and
\* while one runs the pipeline's config is the one of its own request.
C6_OneTrainingAtATime ==
    /\ Cardinality({t \in Threads : tpc[t] \in TrainPcs}) <= 1
    /\ \A t \in Threads :
          tpc[t] \in TrainPcs => config.model_type = treq[t]

----------------------------------------------------------------------------
(* Claims about prediction requests.                                       *)

\* the result of the request's predict_flood_risk call
BasePrediction ==
    IF req.entry = "calculate" /\ out.status = "ok" THEN out.base ELSE out

\* the readings a prediction request may carry
InputFields == IF req.entry = "calculate" THEN CalcKeys ELSE FeatureKeys

\* the values the request sent as None
NoneFields(c) == Cardinality({k \in DOMAIN c : IsNone(c[k])})

\* the readings the request left out, and the values it sent as None
MissingOrNone(c) ==
    Cardinality({k \in InputFields : k \notin DOMAIN c}) + NoneFields(c)

\* C7: whenever is_trained is false, predict_flood_risk returns a complete
\* result of the heuristic with confidence exactly 0.6, whatever the state
\* code.
C7_UntrainedAlwaysFallsBack ==
    (req.entry = "direct" /\ ~is_trained /\ out # NoResult)
    => /\ out.status = "ok"
       /\ out.path = "fallback"
       /\ out.confidence = 6

\* C8: on the trained path a prediction for an observation with k missing
\* or None input fields returns a result whose confidence is
\* max(0.3, 0.8 - 0.1 * k), through calculate_nigeria_flood_risk and
\* directly; k counts the None values, or the None values and the readings
\* left out.
C8_ConfidencePenalty ==
    (is_trained /\ out # NoResult)
    => /\ BasePrediction.status = "ok"
       /\ BasePrediction.confidence
             \in {Max(3, 8 - NoneFields(req.conditions)),
                  Max(3, 8 - MissingOrNone(req.conditions))}

\* C9: every predict request returns a complete result or a typed failure;
\* no exception leaves calculate_nigeria_flood_risk (which catches none and
\* has no failure result).
C9_PredictNeverRaises ==
    (req.entry = "calculate" /\ out # NoResult) => out.status = "ok"

\* C10: every result of predict_flood_risk has flood_risk in [0,1],
\* confidence in [0.3, 0.8] and the level of its flood_risk under the
\* thresholds > 0.8 EMERGENCY, > 0.6 WARNING, > 0.4 WATCH, else INFO.
C10_ResultRanges ==
    BasePrediction.status = "ok"
    => LET r == BasePrediction.flood_risk
           l == BasePrediction.level
       IN  /\ 0 <= r /\ r <= One
           /\ 3 <= BasePrediction.confidence
           /\ BasePrediction.confidence <= 8
           /\ l \in {"INFO", "WATCH", "WARNING", "EMERGENCY"}
           /\ l = "EMERGENCY" <=> 10 * r > 8 * One
           /\ l = "WARNING" <=> (10 * r > 6 * One /\ 10 * r <= 8 * One)
           /\ l = "WATCH" <=> (10 * r > 4 * One /\ 10 * r <= 6 * One)
           /\ l = "INFO" <=> 10 * r <= 4 * One

\* a trained-path result whose risk was clamped to 1.0 and whose
\* confidence is at the floor
C10_Witness ==
    /\ out.status = "ok"
    /\ req.entry = "direct"
    /\ out.path = "trained"
    /\ out.flood_risk = One
    /\ out.level = "EMERGENCY"
    /\ out.confidence = 3

----------------------------------------------------------------------------
(* Claims about the synthetic generator, levels and recommendations.       *)

\* INFO < WATCH < WARNING < EMERGENCY
LevelRank(level) ==
    CASE level = "INFO" -> 0
      [] level = "WATCH" -> 1
      [] level = "WARNING" -> 2
      [] level = "EMERGENCY" -> 3

\* the level a headline of _generate_recommendations announces
HeadlineLevel(item) ==
    CASE item = "EMERGENCY: Evacuate low-lying areas immediately" -> "EMERGENCY"
      [] item = "WARNING: Prepare for potential flooding" -> "WARNING"
      [] item = "WATCH: Monitor conditions closely" -> "WATCH"
      [] item = "INFO: Normal conditions expected" -> "INFO"

\* C11: for the risk of every generated row, the level the generator
\* wrote, the level of the predict paths and the level of the headline of
\* _generate_recommendations are the same, and over the rows the level
\* does not decrease when the risk increases.
C11_LevelsAgree ==
    LET rows == {gen.rows[i] : i \in DOMAIN gen.rows}
    IN  /\ \A r \in rows :
              /\ r.flood_level = Level(r.flood_risk)
              /\ r.flood_level = HeadlineLevel(Headline(r.flood_risk)[1])
        /\ \A a, b \in rows :
              a.flood_risk <= b.flood_risk
              => LevelRank(a.flood_level) <= LevelRank(b.flood_level)

\* a frame with a row exactly on the 0.8 threshold and a row just above
C11_Witness ==
    /\ gen.pc = "idle"
    /\ gen.run = 1
    /\ \E i, j \in DOMAIN gen.first :
          /\ gen.first[i].flood_risk = (8 * One) \div 10
          /\ gen.first[i].flood_level = "WARNING"
          /\ gen.first[j].flood_risk = (8 * One) \div 10 + 1
          /\ gen.first[j].flood_level = "EMERGENCY"

\* C20: two runs of the generator with the same seed and the same sample
\* count return identical rows in every column.
C20_GeneratorDeterministic ==
    (gen.run = 2 /\ gen.pc = "idle") => gen.rows = gen.first

----------------------------------------------------------------------------
(* Claims about the horizon projection.                                    *)

\* C12: for a list of positive horizons calculate_nigeria_flood_risk
\* returns the horizon list as given, one risk and one confidence per
\* horizon, every risk in [0,1] and every confidence in
\* [0.3, base_confidence].
C12_HorizonProjection ==
    (/\ req.entry = "calculate"
     /\ out.status = "ok"
     /\ \A i \in DOMAIN req.horizon_hours : req.horizon_hours[i] > 0)
    => /\ out.horizon = req.horizon_hours
       /\ Len(out.risk) = Len(req.horizon_hours)
       /\ Len(out.confidence) = Len(req.horizon_hours)
       /\ \A i \in DOMAIN out.risk : 0 <= out.risk[i] /\ out.risk[i] <= 1000
       /\ \A i \in DOMAIN out.confidence :
             /\ 300 <= out.confidence[i]
             /\ out.confidence[i] <= 100 * out.base.confidence

\* a response for horizons out of order, the first one long enough for
\* the risk to reach 1.0 and the confidence its floor
C12_Witness ==
    /\ req.entry = "calculate"
    /\ out.status = "ok"
    /\ req.horizon_hours = <<504, 24>>
    /\ out.horizon = <<504, 24>>
    /\ out.risk[1] = 1000
    /\ out.confidence[1] = 300
    /\ out.confidence[2] > 300

----------------------------------------------------------------------------
(* Claims about the recommendation list.                                   *)

\* the conditional items in the order rainfall, river level, soil
\* moisture, base-risk class of the state
ConditionalItems ==
    <<"High rainfall detected - monitor river levels",
      "River levels elevated - check flood defenses",
      "High soil moisture - increased runoff risk",
      "High-risk state - Extra vigilance required">>

ItemRank(item) == CHOOSE k \in DOMAIN ConditionalItems :
                     ConditionalItems[k] = item

\* the four triggers, in the same order
ItemTriggers(c, code) ==
    <<Get(c, "rainfall_24h", 0)[1] > 30,
      Get(c, "river_level", 0)[1] > 30,
      Get(c, "soil_moisture", 0)[1] > 80,
      KnownState(code)
      /\ nigeria_states[code].flood_risk \in {"high", "critical"}>>

\* C13: the recommendation list starts with the headline; each of the
\* four conditional items is in it exactly when its own trigger holds;
\* the conditional items follow in the order rainfall, river level, soil
\* moisture, base-risk class.
C13_RecommendationOrder ==
    (req.entry = "direct" /\ out.status = "ok")
    => LET recs == out.recommendations
           conditional == {ConditionalItems[k] : k \in DOMAIN ConditionalItems}
           triggers == ItemTriggers(req.conditions, req.state_code)
       IN  /\ recs # <<>>
           /\ recs[1] = Headline(out.flood_risk)[1]
           /\ \A k \in DOMAIN ConditionalItems :
                 triggers[k] <=> \E i \in DOMAIN recs : recs[i] = ConditionalItems[k]
           /\ \A i, j \in DOMAIN recs :
                 (i < j /\ recs[i] \in conditional /\ recs[j] \in conditional)
                 => ItemRank(recs[i]) < ItemRank(recs[j])

----------------------------------------------------------------------------
(* Claims about the encoding of states and regions.                        *)

\* C14: on the trained path the code fed to the model for the state and
\* for its region is the code the encoders fitted on the training frame
\* gave to that state and to that region, whichever states the frame
\* covered.
C14_EncodingParity ==
    (req.entry = "direct" /\ is_trained /\ out.status = "ok")
    => LET code == ResolvedState(req.state_code)
           region == nigeria_states[code].region
           seen == label_encoder.classes
       IN  /\ code \in seen
                => StateEncoded(code) = LabelEncode(seen, SortedStates, code)
           /\ region \in TrainingRegions(seen)
                => RegionEncoded(region)
                   = LabelEncode(TrainingRegions(seen), SortedRegions, region)

\* C17: on the trained path a prediction for a state of the registry that
\* the label encoder has not seen returns a result computed with the
\* state code 0, and 0 is not the code of any state the encoder has seen.
C17_UnseenStateReservedCode ==
    (/\ req.entry = "direct"
     /\ is_trained
     /\ out # NoResult
     /\ ~HasNone(req.conditions, DOMAIN req.conditions)
     /\ KnownState(req.state_code)
     /\ req.state_code \notin label_encoder.classes)
    => /\ out.status = "ok"
       /\ StateEncoded(req.state_code) = 0
       /\ \A st \in label_encoder.classes :
             LabelEncode(label_encoder.classes, SortedStates, st) # 0

----------------------------------------------------------------------------
(* Claims about state codes the registry does not hold.                    *)

\* the request has no None value, so nothing but the state code can make
\* its prediction fail
PlainRequest ==
    /\ req.entry = "direct"
    /\ out # NoResult
    /\ ~HasNone(req.conditions, DOMAIN req.conditions)

\* C15: a predict call with a state code that is not in the registry, or
\* with none, returns a result on either path, and the result names the
\* default region: state_code FCT, region North Central.
C15_UnknownCodeDefaultRegion ==
    (PlainRequest /\ req.state_code \in {"XX", NoneCode})
    => /\ out.status = "ok"
       /\ out.state_code = "FCT"
       /\ out.region = nigeria_states["FCT"].region

\* C16: when the trained path substitutes the default region for an
\* unknown code, or the default code for a state the encoder has not
\* seen, the result has a lower confidence than the same observation gets
\* for a known state, and carries a flag beside the regular fields.
C16_DegradationFlagged ==
    (/\ PlainRequest
     /\ out.status = "ok"
     /\ out.path = "trained"
     /\ \/ ~KnownState(req.state_code)
        \/ req.state_code \notin label_encoder.classes)
    => /\ out.confidence < Confidence(req.conditions)
       /\ DOMAIN out # DOMAIN TrainedFloodRisk(req.conditions, "FCT",
                                               out.flood_risk, TRUE)

\* C18: a state code in lower case is resolved to the registry's state of
\* that code: the result has its region, and the item for a high-risk
\* state when the state is one.
C18_CodeCaseNormalized ==
    (PlainRequest /\ out.status = "ok" /\ req.state_code = "la")
    => /\ out.region = nigeria_states["LA"].region
       /\ \E i \in DOMAIN out.recommendations :
             <<out.recommendations[i]>> = StateItems("LA")

\* C19: a retrain request for a model_type that is not supported ends
\* with an error result, and with the config, the model, the scaler, the
\* label encoder and is_trained that were there when it arrived.
C19_UnsupportedModelTypeRejected ==
    [][\A t \in Threads :
          (/\ treq[t] \notin SupportedModelTypes
           /\ tpc[t] # "idle"
           /\ tpc'[t] = "idle"
           /\ phase' = "serving")
          => /\ tres'[t] = "error"
             /\ config' = tpre[t].config
             /\ model' = tpre[t].model
             /\ scaler' = tpre[t].scaler
             /\ label_encoder' = tpre[t].label_encoder
             /\ is_trained' = tpre[t].is_trained]_vars

C22_ProjectionFormula ==
    (req.entry = "calculate" /\ out.status = "ok")
    => \A i \in DOMAIN req.horizon_hours :
          LET h == req.horizon_hours[i]
              rain == SumTo(out.factors.forecast_rainfall, i)
              risk == Max(0, Min(One * 10 * WeekHours,
                         (out.base.flood_risk
                            + (3 * One * Min(50, rain)) \div 500)
                         * (10 * WeekHours + 3 * h)))
              base_confidence == out.base.confidence
              confidence ==
                  Max(30 * WeekHours,
                      Min(base_confidence * 10 * WeekHours,
                          base_confidence * (10 * WeekHours - 4 * h)))
          IN  /\ out.risk[i]
                   = RoundDiv(risk, (One * 10 * WeekHours) \div 1000)
              /\ out.confidence[i]
                   = RoundDiv(confidence * 1000, 100 * WeekHours)

\* ---------------------------------------------------------------------------
\* C23: on an untrained pipeline predict_flood_risk answers from the
\* fallback, and the fallback's risk is the synthetic generator's weighted
\* sum of the same readings with the noise term left out.
C23_FallbackIsGeneratorFormula ==
    (/\ req.entry = "direct"
     /\ ~is_trained
     /\ out.status = "ok"
     /\ FeatureKeys \subseteq DOMAIN req.conditions
     /\ ~HasNone(req.conditions, FeatureKeys))
    => /\ out.path = "fallback"
       /\ out.flood_risk
            = Clamp01(WeightedRisk(req.conditions["rainfall_24h"][1],
                                   req.conditions["river_level"][1],
                                   req.conditions["soil_moisture"][1],
                                   req.conditions["temperature"][1],
                                   req.conditions["humidity"][1],
                                   StateRiskFactor(req.state_code)))

\* ---------------------------------------------------------------------------
\* C24: the fallback's risk does not fall when rainfall_24h, river_level or
\* soil_moisture rises and the other readings stay; and for a state of
\* base-risk medium at 25 degrees the observation (5 mm, 2.0 m, 0.4) gets
\* level INFO or WATCH and a risk strictly below that of the observation
\* (60 mm, 4.5 m, 0.9), which gets WARNING or EMERGENCY.
C24_HeuristicMonotone ==
    (/\ req.entry = "direct"
     /\ ~is_trained
     /\ out.status = "ok"
     /\ HeuristicKeys \subseteq DOMAIN req.conditions)
    => LET c == req.conditions
           rises == {0, 1, 10, 100}
           higher == [{"rainfall_24h", "river_level", "soil_moisture"}
                        -> rises]
           raised(d) ==
               [k \in DOMAIN c |->
                  IF k \in DOMAIN d THEN <<c[k][1] + d[k]>> ELSE c[k]]
           high == SimpleFloodRisk(HighObservation, req.state_code)
       IN  /\ \A d \in higher :
                 out.flood_risk
                   <= SimpleFloodRisk(raised(d), req.state_code).flood_risk
           /\ (/\ c = LowObservation
               /\ KnownState(req.state_code)
               /\ nigeria_states[req.state_code].flood_risk = "medium")
              => /\ out.level \in {"INFO", "WATCH"}
                 /\ high.level \in {"WARNING", "EMERGENCY"}
                 /\ out.flood_risk < high.flood_risk

\* the fallback has scored the low observation for the medium-risk state
C24_Witness ==
    /\ req.entry = "direct"
    /\ ~is_trained
    /\ req.conditions = LowObservation
    /\ req.state_code = "FCT"
    /\ out.status = "ok"
    /\ out.path = "fallback"
    /\ out.level = "INFO"
    /\ out.flood_risk = (15 * One) \div 100

\* ---------------------------------------------------------------------------
\* C25: a trained pipeline whose state-code encoder was never fitted (the
\* trained flag loaded, no encoder artifact) does not predict: the call
\* fails with the encoder-not-fitted error, whatever the state code.
C25_UnfittedEncoderRejected ==
    (/\ PlainRequest
     /\ is_trained
     /\ label_encoder.st # "fitted")
    => /\ out.status = "raise"
       /\ out.error = "NotFittedError"

\* ---------------------------------------------------------------------------
\* C26: process_sensor_data answers status "success" to every sensor
\* reading; for a RAIN, RIVER or WATER_LEVEL sensor with a non-null value it
\* has run a flood-risk assessment before answering, and for every other
\* reading it has run none.
C26_SensorDataProcessed ==
    (req.entry = "sensor" /\ out # NoResult)
    => /\ out.status = "success"
       /\ IF req.type \in {"RAIN", "RIVER", "WATER_LEVEL"}
             /\ ~IsNone(req.value)
          THEN out.prediction.status = "ok"
          ELSE out.prediction = NoResult

\* ---------------------------------------------------------------------------
\* C27: in a weather_cron run the retraining starts only after every
\* configured location was tried and only if one was collected; if one
\* was collected, retrain_model_if_needed retrains the model and returns
\* True and the run ends as completed successfully; if none was, the
\* retraining is skipped.
C27_CronRetrainsAfterCollection ==
    /\ (cron.pc = "retrain" \/ cron.model_retrained # "none")
          => /\ Len(cron.collected) = Len(DEFAULT_LOCATIONS)
             /\ cron.success_count > 0
    /\ cron.pc = "done"
          => IF cron.success_count > 0
             THEN /\ cron.model_retrained = "True"
                  /\ cron.trainings = 1
                  /\ cron.log = "Cron job completed successfully!"
             ELSE /\ cron.model_retrained = "none"
                  /\ cron.trainings = 0

\* ---------------------------------------------------------------------------
\* C28: for positive horizons the first recommendation of the response of
\* calculate_nigeria_flood_risk is the headline of the level of the largest
\* rounded projected risk, and that level is not below the base
\* prediction's; when the largest projected risk is at most 0.4 nothing is
\* inserted and the base prediction's INFO headline is still first.
C28_FirstRecommendation ==
    (/\ req.entry = "calculate"
     /\ out.status = "ok"
     /\ \A i \in DOMAIN req.horizon_hours : req.horizon_hours[i] > 0)
    => LET max_risk == SeqMax(out.risk)
           level == Level((max_risk * One) \div 1000)
           first == out.recommendations[1]
       IN  /\ HeadlineLevel(first) = level
           /\ LevelRank(level) >= LevelRank(out.base.level)
           /\ max_risk <= 400
                 => /\ out.recommendations = out.base.recommendations
                    /\ first = "INFO: Normal conditions expected"

\* a response whose projection is two levels above its base prediction:
\* the WARNING headline was inserted before the base's INFO headline
C28_Witness ==
    /\ req.entry = "calculate"
    /\ out.status = "ok"
    /\ \A i \in DOMAIN req.horizon_hours : req.horizon_hours[i] > 0
    /\ out.base.level = "INFO"
    /\ out.recommendations[1] = "WARNING: Prepare for potential flooding"
    /\ out.recommendations[2] = "INFO: Normal conditions expected"

\* ---------------------------------------------------------------------------
\* C29: when train_model has returned, the model_type of the metadata file
\* names the family of the model in the model file, which is the model
\* predict uses, whatever model_type values the retrain requests carried.
C29_MetadataNamesModelFamily ==
    \A t \in Threads :
       tpc[t] = "returned"
       => /\ disk.model.kind = "ok"
          /\ disk.metadata.kind = "ok"
          /\ disk.model.obj = model
          /\ disk.metadata.obj.model_type = disk.model.obj.family

\* ---------------------------------------------------------------------------
\* C30: once is_trained is true it is true for the rest of the process: no
\* step of a train_model call, returning or raising, sets it back to false;
\* only a new process (load_models at construction) decides it afresh.
C30_TrainedStaysTrained ==
    [][(is_trained /\ phase # "down") => is_trained']_vars

\* a trained process in which a later train_model call has raised
C30_Witness ==
    /\ phase = "serving"
    /\ is_trained
    /\ nfits >= 2
    /\ tres[MainThread] = "error"
    /\ tpc[MainThread] = "idle"

====
